---------------------------- MODULE Spec2Model ----------------------------
(***************************************************************************)
(* The schedulers of src/src/algorithms.py: ldf_single_node,               *)
(* edf_single_node and edf_multinode, run as calls on one caller-owned     *)
(* application_data / platform_data pair.  A call is three kinds of step:  *)
(* the prologue (dependency graph, in-place sort of the task list, seeding *)
(* of the ready queue), one step per iteration of the while loop, and the  *)
(* return.                                                                 *)
(***************************************************************************)
EXTENDS Integers, Sequences, FiniteSets, TLC

(***************************************************************************)
(* Bounds of the input space.                                              *)
(***************************************************************************)
MaxTasks == 3
MaxDeadline == 2
MaxWcet == 1
MaxMsgs == 2
MaxDelay == 1
MaxCalls == 2
MaxLinks == 2

\* dict.get('node_id') of a task that carries no node_id: None
NoNode == -1
\* the node id every single-node entry carries
SingleNodeId == 1

VARIABLES
    tasks,          \* application_data["tasks"], the caller's list object
    messages,       \* application_data["messages"]
    nodes,          \* platform_data["nodes"]
    links,          \* platform_data["links"]
    alg,            \* the operation of the call in progress (or last made)
    pc,             \* "idle" | "loop" | "returned" | "raised"
    graph,          \* local: sender id -> list of receiver ids
    in_degree,      \* local: task id -> unmet predecessor count
    ready_queue,    \* local: deque of task records
    schedule,       \* local: ldf_schedule / edf_schedule / schedule
    current_time,   \* local of the single-node operations
    node_time,      \* local of edf_multinode: node id -> free-time clock
    tasks_in,       \* history: the task list as it was when the call began
    tasks_first,    \* history: the task list as the caller first built it
    results,        \* history: the outcome of every finished call
    budget,         \* the calls the caller has still to make
    lookup          \* the last call of find_link_delay and what it returned

vars == <<tasks, messages, nodes, links, alg, pc, graph, in_degree,
          ready_queue, schedule, current_time, node_time, tasks_in,
          tasks_first, results, budget, lookup>>

\* what no step of a scheduling call assigns
inputs == <<messages, nodes, links, tasks_first, lookup>>

(***************************************************************************)
(* The input space.                                                        *)
(***************************************************************************)
IdsOf(ts) == {ts[i].id : i \in DOMAIN ts}

NodeIds == {0, 1}
UnknownId == MaxTasks
AllIds == 0 .. MaxTasks

Perms(n) == {p \in [1 .. n -> 0 .. (n - 1)] :
                \A i, j \in 1 .. n : i # j => p[i] # p[j]}

\* task lists of n tasks with unique ids 0 .. n-1, listed in the orders of
\* `orders', carrying the node_id hints of `hints'
TaskListsOf(n, orders, hints) ==
    {[i \in 1 .. n |-> [id |-> p[i], wcet |-> w[i], deadline |-> d[i],
                        node_id |-> h[i]]] :
        p \in orders, w \in [1 .. n -> 0 .. MaxWcet],
        d \in [1 .. n -> 1 .. MaxDeadline], h \in hints}

\* no task carries a node_id; every order of the list
PlainTaskLists(max) ==
    UNION {TaskListsOf(n, Perms(n), {[i \in 1 .. n |-> NoNode]}) :
              n \in 1 .. max}

\* at most one task carries a node_id; the list is in id order
HintedTaskLists(n) ==
    TaskListsOf(n, {[i \in 1 .. n |-> i - 1]},
        {h \in [1 .. n -> {NoNode} \cup NodeIds] :
            Cardinality({i \in 1 .. n : h[i] # NoNode}) <= 1})

MessagesOver(ids) ==
    UNION {[1 .. n -> [sender : ids, receiver : ids]] : n \in 0 .. MaxMsgs}

DefaultNodes == <<[id |-> 0], [id |-> 1]>>

NodeLists == {DefaultNodes, <<[id |-> 1], [id |-> 0]>>}

LinkLists ==
    {<<>>} \cup
    {<<[start_node |-> se[1], end_node |-> se[2], link_delay |-> d]>> :
        se \in {p \in NodeIds \X NodeIds : p[1] # p[2]}, d \in 1 .. MaxDelay}

\* inputs that exercise the dependency logic: any list order, messages that
\* may name an id that is no task, the default platform
DependencyInputs ==
    /\ tasks \in PlainTaskLists(MaxTasks)
    /\ messages \in MessagesOver(IdsOf(tasks) \cup {UnknownId})
    /\ nodes = DefaultNodes
    /\ links = <<>>

\* inputs that exercise the platform logic: node_id hints, both node orders,
\* links with a delay
PlatformInputs ==
    /\ tasks \in HintedTaskLists(MaxTasks)
    /\ messages \in MessagesOver(IdsOf(tasks))
    /\ nodes \in NodeLists
    /\ links \in LinkLists

\* inputs for repeated calls on the same objects: any list order, messages
\* among the tasks, both node orders
ReuseInputs ==
    /\ tasks \in PlainTaskLists(MaxTasks)
    /\ messages \in MessagesOver(IdsOf(tasks))
    /\ nodes \in NodeLists
    /\ links = <<>>

(***************************************************************************)
(* Helpers shared by the three operations.                                 *)
(***************************************************************************)
\* a sort that puts an element before the elements of equal key
RECURSIVE InsertByDeadline_unstable(_, _, _)
InsertByDeadline_unstable(x, s, reverse) ==
    IF s = <<>> THEN <<x>>
    ELSE IF (IF reverse THEN Head(s).deadline <= x.deadline
                        ELSE Head(s).deadline >= x.deadline)
         THEN <<x>> \o s
         ELSE <<Head(s)>> \o InsertByDeadline_unstable(x, Tail(s), reverse)

\* sorted(seq, key=deadline[, reverse=True]): a stable sort; with
\* reverse=True elements of equal key keep their original order too.
RECURSIVE InsertByDeadline(_, _, _)
InsertByDeadline(x, s, reverse) ==
    IF s = <<>> THEN <<x>>
    ELSE IF (IF reverse THEN Head(s).deadline < x.deadline
                        ELSE Head(s).deadline > x.deadline)
         THEN <<x>> \o s
         ELSE <<Head(s)>> \o InsertByDeadline(x, Tail(s), reverse)

RECURSIVE SortFrom(_, _, _)
SortFrom(acc, rest, reverse) ==
    IF rest = <<>> THEN acc
    ELSE SortFrom(InsertByDeadline(Head(rest), acc, reverse), Tail(rest), reverse)

\* no sort at all
sorted_skipped(s, reverse) == s

\* a sort that ignores reverse=True
sorted_ascending(s, reverse) == SortFrom(<<>>, s, FALSE)

sorted(s, reverse) == SortFrom(<<>>, s, reverse)

\* the loop over messages that fills graph and in_degree; in_degree[receiver]
\* of an id that is no task raises KeyError
\* a variant that counts the messages to one receiver once in all
RECURSIVE BuildDependencies_once(_, _)
BuildDependencies_once(msgs, st) ==
    IF msgs = <<>> \/ st.raised THEN st
    ELSE LET m == Head(msgs)
             g == [st.graph EXCEPT ![m.sender] = Append(@, m.receiver)]
         IN  IF m.receiver \notin DOMAIN st.in_degree
             THEN [st EXCEPT !.graph = g, !.raised = TRUE]
             ELSE BuildDependencies_once(Tail(msgs),
                      [st EXCEPT !.graph = g,
                                 !.in_degree[m.receiver] = 1])

RECURSIVE BuildDependencies(_, _)
BuildDependencies(msgs, st) ==
    IF msgs = <<>> \/ st.raised THEN st
    ELSE LET m == Head(msgs)
             g == [st.graph EXCEPT ![m.sender] = Append(@, m.receiver)]
         IN  IF m.receiver \notin DOMAIN st.in_degree
             THEN [st EXCEPT !.graph = g, !.raised = TRUE]
             ELSE BuildDependencies(Tail(msgs),
                      [st EXCEPT !.graph = g,
                                 !.in_degree[m.receiver] = @ + 1])

Dependencies(ts, msgs) ==
    BuildDependencies(msgs, [graph |-> [i \in AllIds |-> <<>>],
                             in_degree |-> [i \in IdsOf(ts) |-> 0],
                             raised |-> FALSE])

\* a seeding that ignores the in-degree
ZeroInDegree_all(ts, deg) == ts

\* [task for task in tasks if in_degree[task['id']] == 0]
ZeroInDegree(ts, deg) == SelectSeq(ts, LAMBDA t : deg[t.id] = 0)

\* next(t for t in tasks if t['id'] == dependent)
TaskById(ts, i) == ts[CHOOSE k \in DOMAIN ts :
                        /\ ts[k].id = i
                        /\ \A j \in 1 .. (k - 1) : ts[j].id # i]

\* a lookup that takes a link in either direction
find_link_delay_undirected(ls, start_node, end_node) ==
    LET hits == {k \in DOMAIN ls :
                    \/ /\ ls[k].start_node = start_node
                       /\ ls[k].end_node = end_node
                    \/ /\ ls[k].start_node = end_node
                       /\ ls[k].end_node = start_node}
    IN  IF hits = {} THEN 0
        ELSE ls[CHOOSE k \in hits : \A j \in hits : k <= j].link_delay

\* lines 272-276: the delay of the first link from start_node to end_node
find_link_delay(ls, start_node, end_node) ==
    LET hits == {k \in DOMAIN ls : /\ ls[k].start_node = start_node
                                   /\ ls[k].end_node = end_node}
    IN  IF hits = {} THEN 0
        ELSE ls[CHOOSE k \in hits : \A j \in hits : k <= j].link_delay


\* a release on every decrement, whether or not the count has reached 0
RECURSIVE ReleaseDependents_eager(_, _, _)
ReleaseDependents_eager(deps, st, ts) ==
    IF deps = <<>> THEN st
    ELSE LET dependent == Head(deps)
             deg == [st.in_degree EXCEPT ![dependent] = @ - 1]
         IN  ReleaseDependents_eager(Tail(deps),
                 [in_degree |-> deg,
                  ready_queue |->
                      Append(st.ready_queue, TaskById(ts, dependent))],
                 ts)

\* lines 106-111 / 173-178: the release of the dependents of a scheduled task
RECURSIVE ReleaseDependents(_, _, _)
ReleaseDependents(deps, st, ts) ==
    IF deps = <<>> THEN st
    ELSE LET dependent == Head(deps)
             deg == [st.in_degree EXCEPT ![dependent] = @ - 1]
         IN  ReleaseDependents(Tail(deps),
                 [in_degree |-> deg,
                  ready_queue |->
                      IF deg[dependent] = 0
                      THEN Append(st.ready_queue, TaskById(ts, dependent))
                      ELSE st.ready_queue],
                 ts)

\* dependent_task.get('node_id') as a condition: None and 0 are both false
Truthy(v) == v # NoNode /\ v # 0

\* a release that sets the hinted node's clock instead of raising it
RECURSIVE ReleaseDependentsMulti_assign(_, _, _, _, _)
ReleaseDependentsMulti_assign(deps, st, ts, ls, node_id) ==
    IF deps = <<>> THEN st
    ELSE LET dependent == Head(deps)
             deg == [st.in_degree EXCEPT ![dependent] = @ - 1]
             dependent_task == TaskById(ts, dependent)
             target == dependent_task.node_id
             link_delay == find_link_delay(ls, node_id, target)
             nt == IF Truthy(target) /\ target # node_id
                   THEN [st.node_time EXCEPT ![target] =
                            st.node_time[node_id] + link_delay]
                   ELSE st.node_time
         IN  ReleaseDependentsMulti_assign(Tail(deps),
                 IF deg[dependent] = 0
                 THEN [in_degree |-> deg,
                       ready_queue |-> Append(st.ready_queue, dependent_task),
                       node_time |-> nt]
                 ELSE [st EXCEPT !.in_degree = deg],
                 ts, ls, node_id)

\* lines 339-350: the release in edf_multinode, with the link-delay update
RECURSIVE ReleaseDependentsMulti(_, _, _, _, _)
ReleaseDependentsMulti(deps, st, ts, ls, node_id) ==
    IF deps = <<>> THEN st
    ELSE LET dependent == Head(deps)
             deg == [st.in_degree EXCEPT ![dependent] = @ - 1]
             dependent_task == TaskById(ts, dependent)
             target == dependent_task.node_id
             link_delay == find_link_delay(ls, node_id, target)
             nt == IF Truthy(target) /\ target # node_id
                   THEN [st.node_time EXCEPT ![target] =
                            IF @ >= st.node_time[node_id] + link_delay
                            THEN @ ELSE st.node_time[node_id] + link_delay]
                   ELSE st.node_time
         IN  ReleaseDependentsMulti(Tail(deps),
                 IF deg[dependent] = 0
                 THEN [in_degree |-> deg,
                       ready_queue |-> Append(st.ready_queue, dependent_task),
                       node_time |-> nt]
                 ELSE [st EXCEPT !.in_degree = deg],
                 ts, ls, node_id)

\* min(node_time, key=node_time.get): the first key, in the dict's insertion
\* order (the order of the node list), whose clock is minimal
MinTimeNode(nt, order) ==
    LET k == CHOOSE i \in DOMAIN order :
                 /\ \A j \in DOMAIN order : nt[order[i].id] <= nt[order[j].id]
                 /\ \A j \in 1 .. (i - 1) : nt[order[j].id] > nt[order[i].id]
    IN  order[k].id

(***************************************************************************)
(* The state before any call.                                              *)
(***************************************************************************)
NoGraph == [i \in AllIds |-> <<>>]

NoLookup == [called |-> FALSE, start_node |-> 0, end_node |-> 0,
             link_delay |-> 0]

Idle ==
    /\ alg = "none"
    /\ pc = "idle"
    /\ graph = NoGraph
    /\ in_degree = <<>>
    /\ ready_queue = <<>>
    /\ schedule = <<>>
    /\ current_time = 0
    /\ node_time = <<>>
    /\ tasks_in = tasks
    /\ tasks_first = tasks
    /\ results = <<>>
    /\ lookup = NoLookup

\* one call on a freshly built input
Init ==
    /\ DependencyInputs \/ PlatformInputs
    /\ budget = 1
    /\ Idle

\* MaxCalls calls, one after the other, on the same input objects
InitReuse ==
    /\ ReuseInputs
    /\ budget = MaxCalls
    /\ Idle

CanCall == pc \in {"idle", "returned", "raised"} /\ budget > 0

\* the prologue of a call up to the while loop: lines 70-87, 136-154, 296-317
Prologue(a, reverse, clocks) ==
    LET dep == Dependencies(tasks, messages)
    IN  /\ CanCall
        /\ alg' = a
        /\ budget' = budget - 1
        /\ tasks_in' = tasks
        /\ schedule' = <<>>
        /\ current_time' = 0
        /\ IF dep.raised
           THEN /\ pc' = "raised"
                /\ results' = Append(results, [alg |-> a, outcome |-> "KeyError",
                                               schedule |-> <<>>])
                /\ graph' = NoGraph
                /\ in_degree' = <<>>
                /\ ready_queue' = <<>>
                /\ node_time' = <<>>
                /\ UNCHANGED tasks
           ELSE /\ pc' = "loop"
                /\ graph' = dep.graph
                /\ in_degree' = dep.in_degree
                /\ tasks' = sorted(tasks, reverse)
                /\ ready_queue' =
                       sorted(ZeroInDegree(tasks', dep.in_degree), reverse)
                /\ node_time' = clocks
                /\ UNCHANGED results
        /\ UNCHANGED inputs

ldf_single_node_call == Prologue("ldf_single_node", TRUE, <<>>)

edf_single_node_call == Prologue("edf_single_node", FALSE, <<>>)

edf_multinode_call ==
    Prologue("edf_multinode", FALSE,
             [n \in {nodes[i].id : i \in DOMAIN nodes} |-> 0])

\* an iteration that adds the deadline, not the wcet, to the start time
ldf_single_node_step_deadline ==
    /\ pc = "loop" /\ alg = "ldf_single_node" /\ ready_queue # <<>>
    /\ LET task == Head(ready_queue)
           start_time == current_time
           end_time == start_time + task.deadline
           st == ReleaseDependents(graph[task.id],
                     [in_degree |-> in_degree,
                      ready_queue |-> Tail(ready_queue)], tasks)
       IN  /\ schedule' = Append(schedule,
                   [task_id |-> task.id, node_id |-> SingleNodeId,
                    start_time |-> start_time, end_time |-> end_time,
                    deadline |-> task.deadline])
           /\ current_time' = end_time
           /\ in_degree' = st.in_degree
           /\ ready_queue' = sorted(st.ready_queue, TRUE)
    /\ UNCHANGED <<tasks, alg, pc, graph, node_time, tasks_in, results, budget,
                   inputs>>

\* lines 89-114: one iteration of the while loop of ldf_single_node
ldf_single_node_step ==
    /\ pc = "loop" /\ alg = "ldf_single_node" /\ ready_queue # <<>>
    /\ LET task == Head(ready_queue)
           start_time == current_time
           end_time == start_time + task.wcet
           st == ReleaseDependents(graph[task.id],
                     [in_degree |-> in_degree,
                      ready_queue |-> Tail(ready_queue)], tasks)
       IN  /\ schedule' = Append(schedule,
                   [task_id |-> task.id, node_id |-> SingleNodeId,
                    start_time |-> start_time, end_time |-> end_time,
                    deadline |-> task.deadline])
           /\ current_time' = end_time
           /\ in_degree' = st.in_degree
           /\ ready_queue' = sorted(st.ready_queue, TRUE)
    /\ UNCHANGED <<tasks, alg, pc, graph, node_time, tasks_in, results, budget,
                   inputs>>

\* an iteration that leaves the node idle for one unit after each task
edf_single_node_step_gap ==
    /\ pc = "loop" /\ alg = "edf_single_node" /\ ready_queue # <<>>
    /\ LET task == Head(ready_queue)
           start_time == current_time
           end_time == start_time + task.wcet
           st == ReleaseDependents(graph[task.id],
                     [in_degree |-> in_degree,
                      ready_queue |-> Tail(ready_queue)], tasks)
       IN  /\ schedule' = Append(schedule,
                   [task_id |-> task.id, node_id |-> SingleNodeId,
                    start_time |-> start_time, end_time |-> end_time,
                    deadline |-> task.deadline])
           /\ current_time' = end_time + 1
           /\ in_degree' = st.in_degree
           /\ ready_queue' = sorted(st.ready_queue, FALSE)
    /\ UNCHANGED <<tasks, alg, pc, graph, node_time, tasks_in, results, budget,
                   inputs>>

\* lines 156-181: one iteration of the while loop of edf_single_node
edf_single_node_step ==
    /\ pc = "loop" /\ alg = "edf_single_node" /\ ready_queue # <<>>
    /\ LET task == Head(ready_queue)
           start_time == current_time
           end_time == start_time + task.wcet
           st == ReleaseDependents(graph[task.id],
                     [in_degree |-> in_degree,
                      ready_queue |-> Tail(ready_queue)], tasks)
       IN  /\ schedule' = Append(schedule,
                   [task_id |-> task.id, node_id |-> SingleNodeId,
                    start_time |-> start_time, end_time |-> end_time,
                    deadline |-> task.deadline])
           /\ current_time' = end_time
           /\ in_degree' = st.in_degree
           /\ ready_queue' = sorted(st.ready_queue, FALSE)
    /\ UNCHANGED <<tasks, alg, pc, graph, node_time, tasks_in, results, budget,
                   inputs>>

\* lines 319-353: one iteration of the while loop of edf_multinode
edf_multinode_step ==
    /\ pc = "loop" /\ alg = "edf_multinode" /\ ready_queue # <<>>
    /\ LET task == Head(ready_queue)
           node_id == MinTimeNode(node_time, nodes)
           start_time == node_time[node_id]
           end_time == start_time + task.wcet
           st == ReleaseDependentsMulti(graph[task.id],
                     [in_degree |-> in_degree,
                      ready_queue |-> Tail(ready_queue),
                      node_time |-> [node_time EXCEPT ![node_id] = end_time]],
                     tasks, links, node_id)
       IN  /\ schedule' = Append(schedule,
                   [task_id |-> task.id, node_id |-> node_id,
                    start_time |-> start_time, end_time |-> end_time,
                    deadline |-> task.deadline])
           /\ node_time' = st.node_time
           /\ in_degree' = st.in_degree
           /\ ready_queue' = sorted(st.ready_queue, FALSE)
    /\ UNCHANGED <<tasks, alg, pc, graph, current_time, tasks_in, results,
                   budget, inputs>>

\* lines 116, 185, 355: the loop ends on an empty ready queue and the
\* operation returns whatever it has scheduled
Return ==
    /\ pc = "loop" /\ ready_queue = <<>>
    /\ pc' = "returned"
    /\ results' = Append(results, [alg |-> alg, outcome |-> "returned",
                                   schedule |-> schedule])
    /\ UNCHANGED <<tasks, alg, graph, in_degree, ready_queue, schedule,
                   current_time, node_time, tasks_in, budget, inputs>>

\* lines 22-51: the fixed example that the unimplemented operations return
example_schedule ==
    <<[task_id |-> 3, node_id |-> 0, end_time |-> 20, deadline |-> 256,
       start_time |-> 0],
      [task_id |-> 2, node_id |-> 0, end_time |-> 40, deadline |-> 300,
       start_time |-> 20],
      [task_id |-> 1, node_id |-> 0, end_time |-> 60, deadline |-> 250,
       start_time |-> 40],
      [task_id |-> 0, node_id |-> 0, end_time |-> 80, deadline |-> 250,
       start_time |-> 60]>>

\* a call of an operation whose body is the single return statement
ReturnExample(a) ==
    /\ CanCall
    /\ alg' = a
    /\ budget' = budget - 1
    /\ tasks_in' = tasks
    /\ schedule' = example_schedule
    /\ pc' = "returned"
    /\ results' = Append(results, [alg |-> a, outcome |-> "returned",
                                   schedule |-> example_schedule])
    /\ UNCHANGED <<tasks, graph, in_degree, ready_queue, current_time,
                   node_time, inputs>>

\* lines 188-250: the body of ll_multinode is a string literal and a return
ll_multinode_call == ReturnExample("ll_multinode")

\* lines 253-270
ldf_multinode_call == ReturnExample("ldf_multinode")

Next ==
    \/ ldf_single_node_call
    \/ edf_single_node_call
    \/ edf_multinode_call
    \/ ldf_single_node_step
    \/ edf_single_node_step
    \/ edf_multinode_step
    \/ Return

Spec == Init /\ [][Next]_vars

SpecReuse == InitReuse /\ [][Next]_vars

\* one call that, once made, runs to its end: the program is sequential and
\* nothing but its own steps stands between a call and its return
InitLive ==
    /\ DependencyInputs
    /\ budget = 1
    /\ Idle

SpecLive == InitLive /\ [][Next]_vars /\ WF_vars(Next)

\* the four tasks of the worked example, in the order it gives them
ScenarioTasks ==
    <<[id |-> 0, wcet |-> 20, deadline |-> 250, node_id |-> NoNode],
      [id |-> 1, wcet |-> 20, deadline |-> 250, node_id |-> NoNode],
      [id |-> 2, wcet |-> 20, deadline |-> 300, node_id |-> NoNode],
      [id |-> 3, wcet |-> 20, deadline |-> 256, node_id |-> NoNode]>>

\* the four tasks in every order of the list, without messages
ScenarioInputs ==
    /\ tasks \in {[i \in 1 .. 4 |-> ScenarioTasks[p[i] + 1]] : p \in Perms(4)}
    /\ messages = <<>>
    /\ nodes = DefaultNodes
    /\ links = <<>>

InitScenario ==
    /\ ScenarioInputs
    /\ budget = 1
    /\ Idle

\* one call on the tasks of the worked example
SpecScenario == InitScenario /\ [][Next]_vars

\* link lists for the lookup alone: links in both directions and from a
\* node to itself, several links for one pair of nodes, delays from 0
LookupInputs ==
    /\ links \in UNION {[1 .. n -> [start_node : NodeIds, end_node : NodeIds,
                                    link_delay : 0 .. MaxDelay]] :
                            n \in 0 .. MaxLinks}
    /\ tasks = <<>>
    /\ messages = <<>>
    /\ nodes = DefaultNodes

InitLookup ==
    /\ LookupInputs
    /\ budget = 0
    /\ Idle

\* a call of find_link_delay on the link list
find_link_delay_call ==
    /\ ~lookup.called
    /\ \E start_node \in NodeIds, end_node \in NodeIds :
           lookup' = [called |-> TRUE, start_node |-> start_node,
                      end_node |-> end_node,
                      link_delay |-> find_link_delay(links, start_node,
                                                     end_node)]
    /\ UNCHANGED <<tasks, messages, nodes, links, alg, pc, graph, in_degree,
                   ready_queue, schedule, current_time, node_time, tasks_in,
                   tasks_first, results, budget>>

NextLookup == find_link_delay_call

SpecLookup == InitLookup /\ [][NextLookup]_vars

\* one call of an operation that has no implementation yet
NextUnimplemented ==
    \/ ll_multinode_call
    \/ ldf_multinode_call

SpecUnimplemented == Init /\ [][NextUnimplemented]_vars

(***************************************************************************)
(* Vocabulary of the properties.                                           *)
(***************************************************************************)
Returned == pc = "returned"

KnownReferences ==
    \A i \in DOMAIN messages : /\ messages[i].sender \in IdsOf(tasks)
                               /\ messages[i].receiver \in IdsOf(tasks)

\* the messages induce no cycle: the tasks can be ranked so that every
\* message goes from a lower to a higher rank
AcyclicInput ==
    /\ KnownReferences
    /\ \E rank \in [IdsOf(tasks) -> 1 .. Len(tasks)] :
           \A i \in DOMAIN messages :
               rank[messages[i].sender] < rank[messages[i].receiver]

EntriesOf(t) == {i \in DOMAIN schedule : schedule[i].task_id = t}

SingleNode == alg \in {"ldf_single_node", "edf_single_node"}

AtSelection == pc = "loop" /\ ready_queue # <<>>

\* every task has the positive duration the data model asks for
PositiveWcet == \A i \in DOMAIN tasks : tasks[i].wcet > 0

(***************************************************************************)
(* Properties of the returned schedule.                                    *)
(***************************************************************************)

\* C1: for an acyclic input (unique task ids, every message naming existing
\* tasks) the schedule a call returns holds every input task id exactly
\* once: nothing dropped, nothing scheduled twice.
C1_EveryTaskExactlyOnce ==
    (Returned /\ AcyclicInput) =>
        /\ Len(schedule) = Len(tasks)
        /\ \A t \in IdsOf(tasks) : Cardinality(EntriesOf(t)) = 1

\* a returned schedule of MaxTasks tasks one of which waited for two messages
C1_Witness ==
    /\ Returned /\ AcyclicInput
    /\ Len(tasks) = MaxTasks
    /\ \E i, j \in DOMAIN messages :
           i # j /\ messages[i].receiver = messages[j].receiver
    /\ Len(schedule) = MaxTasks

\* C2: in a returned schedule, for every message whose sender and receiver
\* are scheduled on the same node, the receiver starts no earlier than the
\* sender ends.
C2_SameNodePrecedence ==
    Returned =>
        \A m \in DOMAIN messages : \A i, j \in DOMAIN schedule :
            (/\ schedule[i].task_id = messages[m].sender
             /\ schedule[j].task_id = messages[m].receiver
             /\ schedule[i].node_id = schedule[j].node_id)
            => schedule[j].start_time >= schedule[i].end_time

\* edf_multinode has put a sender of positive duration and its receiver on
\* the same node, with another entry in between
C2_Witness ==
    /\ Returned /\ alg = "edf_multinode"
    /\ \E m \in DOMAIN messages : \E i, j \in DOMAIN schedule :
           /\ schedule[i].task_id = messages[m].sender
           /\ schedule[j].task_id = messages[m].receiver
           /\ schedule[i].node_id = schedule[j].node_id
           /\ schedule[i].end_time > schedule[i].start_time
           /\ j > i + 1

\* C3: in a schedule returned by edf_multinode for tasks of positive
\* duration, for every message whose sender and receiver are scheduled on
\* different nodes, the receiver starts no earlier than the sender's
\* end_time plus the link delay from the sender's node to the receiver's.
C3_CrossNodeDelay ==
    (Returned /\ alg = "edf_multinode" /\ PositiveWcet) =>
        \A m \in DOMAIN messages : \A i, j \in DOMAIN schedule :
            (/\ schedule[i].task_id = messages[m].sender
             /\ schedule[j].task_id = messages[m].receiver
             /\ schedule[i].node_id # schedule[j].node_id)
            => schedule[j].start_time >=
                   schedule[i].end_time
                   + find_link_delay(links, schedule[i].node_id,
                                     schedule[j].node_id)

\* C4: when the messages (all naming existing tasks of positive duration)
\* leave the ready queue empty before every task is scheduled, as a cycle
\* does, the call fails and does not return: a returned schedule is never
\* partial or empty.
C4_CycleIsAnError ==
    (Returned /\ KnownReferences /\ PositiveWcet) =>
        \A t \in IdsOf(tasks) : EntriesOf(t) # {}

\* sorted(schedule, key=start_time)
RECURSIVE InsertByStart(_, _)
InsertByStart(x, s) ==
    IF s = <<>> THEN <<x>>
    ELSE IF Head(s).start_time > x.start_time
         THEN <<x>> \o s
         ELSE <<Head(s)>> \o InsertByStart(x, Tail(s))

RECURSIVE SortByStartFrom(_, _)
SortByStartFrom(acc, rest) ==
    IF rest = <<>> THEN acc
    ELSE SortByStartFrom(InsertByStart(Head(rest), acc), Tail(rest))

ByStartTime(s) == SortByStartFrom(<<>>, s)

\* C5: a schedule returned by ldf_single_node or edf_single_node is
\* contiguous: sorted by start_time, each entry starts where the one before
\* it ends.
C5_SingleNodeContiguous ==
    (Returned /\ SingleNode) =>
        LET s == ByStartTime(schedule)
        IN  \A i \in 1 .. (Len(s) - 1) : s[i + 1].start_time = s[i].end_time

\* a returned single-node schedule of MaxTasks entries that begins with an
\* entry of length 0 and ends after time 0
C5_Witness ==
    /\ Returned /\ SingleNode
    /\ Len(schedule) = MaxTasks
    /\ schedule[Len(schedule)].end_time > 0
    /\ schedule[1].end_time = 0

C7_InputsUnchanged ==
    [][PositiveWcet =>
          <<tasks, messages, nodes, links>>' = <<tasks, messages, nodes, links>>]_vars

\* C8: at every selection point of a call on tasks of positive duration,
\* among the tasks of the ready queue that share the deadline of the
\* selected task (the best one), the selected task has the smallest id.
C8_TieBreakById ==
    (AtSelection /\ PositiveWcet) =>
        \A i \in DOMAIN ready_queue :
            ready_queue[i].deadline = Head(ready_queue).deadline
            => Head(ready_queue).id <= ready_queue[i].id

\* the deadline of the task selected at a selection point is the best of the
\* ready queue: the largest under LDF, the smallest under EDF
BestDeadlineSelected ==
    \A i \in DOMAIN ready_queue :
        IF alg = "ldf_single_node"
        THEN Head(ready_queue).deadline >= ready_queue[i].deadline
        ELSE Head(ready_queue).deadline <= ready_queue[i].deadline

\* the step selects a task and releases no dependent
SelectsWithoutRelease ==
    /\ AtSelection
    /\ Len(schedule') = Len(schedule) + 1
    /\ Len(ready_queue') = Len(ready_queue) - 1

\* C9: the task removed from the ready queue has the smallest deadline of
\* the queue under EDF (single- and multi-node) and the largest under LDF;
\* and when a selection releases no dependent, the next selected deadline is
\* no smaller (EDF) or no larger (LDF) than this one.
C9_BestDeadlineFirst ==
    [][(AtSelection => BestDeadlineSelected)
       /\ ((SelectsWithoutRelease /\ ready_queue' # <<>>) =>
              IF alg = "ldf_single_node"
              THEN Head(ready_queue').deadline <= Head(ready_queue).deadline
              ELSE Head(ready_queue').deadline >= Head(ready_queue).deadline)]_vars

\* a selection point after a release: the queue holds a task that waited for
\* a message and a task of another deadline
C9_Witness ==
    /\ AtSelection
    /\ schedule # <<>>
    /\ Len(ready_queue) >= 2
    /\ ready_queue[1].deadline # ready_queue[2].deadline
    /\ \E m \in DOMAIN messages : \E i \in DOMAIN ready_queue :
           messages[m].receiver = ready_queue[i].id

\* C10: a call on tasks of positive duration whose messages name a sender
\* or a receiver that is no task fails and returns no schedule: a call that
\* returns had every message naming existing tasks.
C10_UnknownReferenceIsAnError ==
    (Returned /\ PositiveWcet) => KnownReferences

\* C11: a call whose task list holds a task of non-positive WCET fails and
\* returns no schedule: a call that returns had only tasks of positive WCET,
\* and no entry of its schedule ends at or before its start.
C11_NonPositiveWcetIsAnError ==
    Returned =>
        /\ PositiveWcet
        /\ \A i \in DOMAIN schedule :
               schedule[i].end_time > schedule[i].start_time

\* C12: ldf_multinode and ll_multinode return a schedule computed from their
\* arguments: for an acyclic input of tasks of positive duration the task
\* ids of the returned schedule are the input task ids, each once.
C12_MultinodeVariantsSchedule ==
    (Returned /\ alg \in {"ldf_multinode", "ll_multinode"}
        /\ AcyclicInput /\ PositiveWcet) =>
        /\ {schedule[i].task_id : i \in DOMAIN schedule} = IdsOf(tasks)
        /\ \A t \in IdsOf(tasks) : Cardinality(EntriesOf(t)) = 1

\* C13: every entry emitted by ldf_single_node, edf_single_node and
\* edf_multinode ends at its start_time plus the wcet of its task, and
\* carries the deadline the task had in the input.
C13_EntryFields ==
    \A i \in DOMAIN schedule :
        LET t == TaskById(tasks_first, schedule[i].task_id)
        IN  /\ schedule[i].end_time = schedule[i].start_time + t.wcet
            /\ schedule[i].deadline = t.deadline

\* a returned schedule of MaxTasks entries whose tasks differ in wcet and in
\* deadline, the last one starting after time 0
C13_Witness ==
    /\ Returned
    /\ Len(schedule) = MaxTasks
    /\ schedule[MaxTasks].start_time > 0
    /\ \E i, j \in DOMAIN tasks : /\ tasks[i].wcet # tasks[j].wcet
                                  /\ tasks[i].deadline # tasks[j].deadline

\* any two entries of one node: one ends no later than the other starts
NodeEntriesDisjoint ==
    \A i, j \in DOMAIN schedule :
        (i # j /\ schedule[i].node_id = schedule[j].node_id) =>
            \/ schedule[i].end_time <= schedule[j].start_time
            \/ schedule[j].end_time <= schedule[i].start_time

\* C14: in edf_multinode no node's free-time clock ever decreases (also when
\* it is raised for a link delay), every new entry starts at the clock of
\* its node, and the entries of one node never overlap.
C14_NoOverlapPerNode ==
    [][(pc = "loop" /\ alg = "edf_multinode") =>
          /\ \A n \in DOMAIN node_time : node_time'[n] >= node_time[n]
          /\ Len(schedule') = Len(schedule) + 1 =>
                 schedule'[Len(schedule')].start_time =
                     node_time[schedule'[Len(schedule')].node_id]
          /\ NodeEntriesDisjoint']_vars

\* in edf_multinode a node that has run an entry of positive duration has
\* its clock beyond the end of all its entries: the clock was raised for a
\* link delay
C14_Witness ==
    /\ alg = "edf_multinode" /\ pc = "loop"
    /\ \E n \in DOMAIN node_time :
           /\ \E k \in DOMAIN schedule :
                  /\ schedule[k].node_id = n
                  /\ schedule[k].end_time > schedule[k].start_time
           /\ \A k \in DOMAIN schedule :
                  schedule[k].node_id = n => schedule[k].end_time < node_time[n]

\* the single-node schedule that runs the tasks of the worked example back
\* to back in the order `ids'
ScenarioSchedule(ids) ==
    [i \in 1 .. 4 |->
        [task_id |-> ids[i], node_id |-> 1,
         start_time |-> 20 * (i - 1), end_time |-> 20 * i,
         deadline |-> ScenarioTasks[ids[i] + 1].deadline]]

\* C15: for the four tasks of the worked example, given in the order 0, 1,
\* 2, 3 without messages, edf_single_node returns them in the order 0, 1, 3,
\* 2 and ldf_single_node in the order 2, 3, 0, 1, both at 0-20, 20-40, 40-60,
\* 60-80.
C15_WorkedExample ==
    (Returned /\ tasks_first = ScenarioTasks) =>
        /\ alg = "edf_single_node" => schedule = ScenarioSchedule(<<0, 1, 3, 2>>)
        /\ alg = "ldf_single_node" => schedule = ScenarioSchedule(<<2, 3, 0, 1>>)

\* ldf_single_node has returned on the worked example in its given order
C15_Witness ==
    /\ Returned /\ tasks_first = ScenarioTasks
    /\ alg = "ldf_single_node"
    /\ Len(schedule) = 4

\* C16: at every assignment step of edf_multinode (tasks of positive
\* duration) the selected node has the smallest clock of all nodes, and
\* among the nodes that share the smallest clock it has the smallest id,
\* whatever the order of the node list.
C16_MinClockThenMinId ==
    [][(AtSelection /\ alg = "edf_multinode" /\ PositiveWcet
           /\ Len(schedule') = Len(schedule) + 1) =>
          LET n == schedule'[Len(schedule')].node_id
          IN  \A m \in DOMAIN node_time :
                  \/ node_time[n] < node_time[m]
                  \/ node_time[n] = node_time[m] /\ n <= m]_vars

\* the tasks that the step puts into the ready queue
ReleasedByStep ==
    {ready_queue'[i] : i \in DOMAIN ready_queue'} \
        {ready_queue[i] : i \in DOMAIN ready_queue}

\* C17: in edf_multinode (tasks of positive duration), when a step releases
\* a dependent that carries a node id, any node id of the platform, other
\* than the producer's node, that node's clock becomes the larger of its
\* clock and the producer's end_time plus the link delay from the producer's
\* node to it; the producer's node is at the producer's end_time and every
\* other clock is as it was, as are all clocks when no released dependent
\* carries a node id.
C17_HintRaisesClock ==
    [][(AtSelection /\ alg = "edf_multinode" /\ PositiveWcet
           /\ Len(schedule') = Len(schedule) + 1) =>
          LET node_id == schedule'[Len(schedule')].node_id
              end_time == schedule'[Len(schedule')].end_time
              arrival(m) == end_time + find_link_delay(links, node_id, m)
          IN  \A m \in DOMAIN node_time :
                  node_time'[m] =
                      IF m = node_id THEN end_time
                      ELSE IF \E d \in ReleasedByStep : d.node_id = m
                           THEN IF node_time[m] >= arrival(m)
                                THEN node_time[m] ELSE arrival(m)
                           ELSE node_time[m]]_vars

\* the k-th link goes from the looked-up start node to the looked-up end node
LinkMatches(k) ==
    /\ links[k].start_node = lookup.start_node
    /\ links[k].end_node = lookup.end_node

\* C18: find_link_delay returns the link_delay of the first link, in list
\* order, whose start_node and end_node are both the ones asked for (a link
\* in the other direction does not count), and 0 when there is none.
C18_FirstMatchOrZero ==
    lookup.called =>
        IF \E k \in DOMAIN links : LinkMatches(k)
        THEN \E k \in DOMAIN links :
                 /\ LinkMatches(k)
                 /\ \A j \in 1 .. (k - 1) : ~LinkMatches(j)
                 /\ lookup.link_delay = links[k].link_delay
        ELSE lookup.link_delay = 0

\* a lookup between two different nodes in a list that holds a link in the
\* other direction and no link in the direction asked for
C18_Witness ==
    /\ lookup.called
    /\ lookup.start_node # lookup.end_node
    /\ Len(links) = MaxLinks
    /\ \A k \in DOMAIN links :
           /\ links[k].start_node = lookup.end_node
           /\ links[k].end_node = lookup.start_node
           /\ links[k].link_delay > 0
    /\ lookup.link_delay = 0

\* the places a task holds in the ready queue
QueuedAt(t) == {i \in DOMAIN ready_queue : ready_queue[i].id = t}

\* C19: for every input with unique task ids, cyclic or not, the loop of
\* ldf_single_node, edf_single_node and edf_multinode ends: a task is in the
\* ready queue or in the schedule at most once in all, so the schedule
\* never outgrows the task list, and a call that has entered its loop
\* returns with the ready queue empty.
C19_LoopTerminates ==
    /\ [](pc = "loop" =>
             /\ \A t \in IdsOf(tasks) :
                    Cardinality(EntriesOf(t)) + Cardinality(QueuedAt(t)) <= 1
             /\ Len(schedule) <= Len(tasks))
    /\ (pc = "loop" ~> (pc = "returned" /\ ready_queue = <<>>))

\* a call on a cyclic input has returned with some of the tasks scheduled
C19_Witness ==
    /\ Returned
    /\ KnownReferences /\ ~AcyclicInput
    /\ schedule # <<>>
    /\ Len(schedule) < Len(tasks)

\* the messages to task t whose sender has no entry in the schedule
PendingMessages(t) ==
    {m \in DOMAIN messages :
        /\ messages[m].receiver = t
        /\ EntriesOf(messages[m].sender) = {}}

\* C20: from the entry of the loop on (where the schedule is empty, so every
\* message to t counts, duplicates included), in_degree[t] is the number of
\* messages to t whose sender is not yet scheduled; it is never negative;
\* and a task that is in the ready queue or in the schedule has in_degree 0.
C20_InDegreeBookkeeping ==
    pc \in {"loop", "returned"} =>
        \A t \in IdsOf(tasks) :
            /\ in_degree[t] = Cardinality(PendingMessages(t))
            /\ in_degree[t] >= 0
            /\ (QueuedAt(t) # {} \/ EntriesOf(t) # {}) => in_degree[t] = 0

\* in the loop, a task with two messages to it has had one of its senders
\* scheduled and still waits for the other
C20_Witness ==
    /\ pc = "loop"
    /\ schedule # <<>>
    /\ \E t \in IdsOf(tasks) :
           /\ Cardinality({m \in DOMAIN messages :
                              messages[m].receiver = t}) = MaxMsgs
           /\ in_degree[t] = 1
           /\ Cardinality(PendingMessages(t)) = 1

=============================================================================
